---- MODULE Spec2Model ----
(***************************************************************************)
(* A model of world_generator.py: the WorldGenerator class (construction,  *)
(* noise sampling, height and moisture synthesis, river tracing, biome     *)
(* classification, raster bands) and the command line's dimension          *)
(* resolution.                                                             *)
(*                                                                         *)
(* Real numbers are fixed-point integers in thousandths (0.28 is 280),     *)
(* rounded down after each division.  The two sources of pseudo-random     *)
(* numbers the program does not define itself are modelled by small        *)
(* deterministic functions with the same interface: random.Random by a     *)
(* counter-based generator over 0..4095 (seed, random, randint), and       *)
(* the pnoise2 backend by a hash of its arguments onto NoiseLevels.        *)
(***************************************************************************)
EXTENDS Integers, Sequences, FiniteSets, TLC

----------------------------------------------------------------------------
(* Bounds of the model *)

\* largest width / height given to a generator
MaxDim == 3
\* explicit seeds are 0..MaxSeed; an unspecified seed is drawn from the same range
MaxSeed == 1
\* ascii_map calls made on one generator
MaxCalls == 2
\* _find_rivers is asked for 0..MaxRivers rivers when traced step by step
MaxRivers == 2
\* the scrambled terrains traced are numbered 0..MaxTerrain
MaxTerrain == 5
\* the grids classified cell by cell have 2..MaxRows rows
MaxRows == 11

----------------------------------------------------------------------------
(* Arithmetic helpers *)

Abs(n) == IF n < 0 THEN -n ELSE n

Max(a, b) == IF a >= b THEN a ELSE b

Min(a, b) == IF a <= b THEN a ELSE b

\* Python's int(a / b) for b > 0: truncation toward zero
TruncDiv(a, b) == IF a >= 0 THEN a \div b ELSE -((-a) \div b)

RECURSIVE SqrtSearch(_, _, _)
SqrtSearch(n, lo, hi) ==
    IF lo >= hi THEN lo
    ELSE LET mid == (lo + hi + 1) \div 2
         IN  IF mid * mid <= n THEN SqrtSearch(n, mid, hi)
             ELSE SqrtSearch(n, lo, mid - 1)

\* floor(sqrt(n)) for 0 <= n < 2^31
ISqrt(n) == SqrtSearch(n, 0, 46340)

RECURSIVE XorNat(_, _)
XorNat(a, b) ==
    IF a = 0 THEN b
    ELSE IF b = 0 THEN a
    ELSE (((a % 2) + (b % 2)) % 2) + 2 * XorNat(a \div 2, b \div 2)

\* Python's a ^ b on unbounded two's-complement integers (~n = -n - 1)
Xor(a, b) ==
    IF a >= 0 /\ b >= 0 THEN XorNat(a, b)
    ELSE IF a < 0 /\ b < 0 THEN XorNat(-a - 1, -b - 1)
    ELSE IF a < 0 THEN -XorNat(-a - 1, b) - 1
    ELSE -XorNat(a, -b - 1) - 1

----------------------------------------------------------------------------
(* random.Random: seed, random, randint *)
(* A counter-based generator: the state is a counter modulo 4096, each draw *)
(* advances it by one and returns the scrambled counter.                   *)

\* a bijection of 0..4095 that scrambles its argument
Scramble(k) == (k * (2 * k + 1)) % 4096

\* random.Random(k) / Random.seed(k): an integer seed is used by absolute value
RngSeed(k) == (Abs(k) * 37 + 11) % 4096

\* the generator's state after one draw
RngNext(s) == (s + 1) % 4096

\* the generator's state after k draws
RngSkip(s, k) == (s + k) % 4096

\* the word in 0..4095 a draw in state s returns
RngWord(s) == Scramble(RngNext(s))

\* Random.random() drawn in state s: a value in [0, 1), in thousandths
RngRandom(s) == (RngWord(s) * 1000) \div 4096

\* Random.randint(0, n - 1) drawn in state s
RngRandint(s, n) == (RngWord(s) * n) \div 4096

----------------------------------------------------------------------------
(* _perlin *)

\* the values the pnoise2 backend is taken to return, in thousandths of [-1, 1]
NoiseLevels == <<-1000, -500, 0, 500, 1000>>

\* pnoise2(x, y, octaves, repeatx, repeaty, base) with x, y in thousandths
PNoise2(xs, ys, octaves, base) ==
    NoiseLevels[((Scramble((xs * 7 + ys * 17 + octaves * 5 + base * 11) % 4096) * 5)
                    \div 4096) + 1]

\* _perlin(x, y, scale, octaves, base) of a generator with the given seed and
\* random stream; x = xn / xd, y = yn / yd, scale = sc / 1000.
\* Returns the sample and the stream's state afterwards.
Perlin(pnoise2, seed, rng, xn, xd, yn, yd, sc, octaves, base) ==
    IF ~pnoise2
    THEN LET s == RngSeed(Xor(Xor(Xor(TruncDiv(xn * 1000, xd),
                                      TruncDiv(yn * 1000, yd)), seed), base))
         IN  [val |-> RngRandom(s), rng |-> RngNext(s)]
    ELSE [val |-> PNoise2((xn * sc) \div xd, (yn * sc) \div yd, octaves, seed + base),
          rng |-> rng]

----------------------------------------------------------------------------
(* generate_heightmap, _generate_moisture *)

\* edge = max(0.0, 1.0 - dist), dist = sqrt(nx * nx + ny * ny) / 0.7, with
\* nx = x / w - 0.5 = (2x - w) / 2w and ny = (2y - h) / 2h
Edge(w, h, x, y) ==
    LET q    == (2 * x - w) * (2 * x - w) * h * h + (2 * y - h) * (2 * y - h) * w * w
        dist == (10 * ISqrt(q * 1000000)) \div (14 * w * h)
    IN  Max(0, 1000 - dist)

\* h = ((continent + detail) * edge + 0.15 * edge + 1) / 2 from the two samples
\* n1, n2; continent = n1 * 0.7, detail = n2 * 0.3.  Not clamped.
Elevation(n1, n2, edge) ==
    ((((7 * n1 + 3 * n2 + 1500) * edge) \div 10000) + 1000) \div 2

HeightCell(pnoise2, seed, w, h, x, y) ==
    LET c == Perlin(pnoise2, seed, 0, 2 * x - w, 2 * w, 2 * y - h, 2 * h, 700, 2, 100)
        d == Perlin(pnoise2, seed, 0, 2 * x - w, 2 * w, 2 * y - h, 2 * h, 3000, 6, 200)
    IN  Elevation(c.val, d.val, Edge(w, h, x, y))

\* m = _perlin(x / w, y / h, scale=2.0, octaves=4, base=300) * 0.5 + 0.5
MoistureCell(pnoise2, seed, w, h, x, y) ==
    (Perlin(pnoise2, seed, 0, x, w, y, h, 2000, 4, 300).val + 1000) \div 2

\* generate_heightmap: the grid, rows 0..h-1 of cells 0..w-1
GenerateHeightmap(pnoise2, seed, w, h) ==
    [y \in 0 .. h - 1 |-> [x \in 0 .. w - 1 |-> HeightCell(pnoise2, seed, w, h, x, y)]]

\* _generate_moisture
GenerateMoisture(pnoise2, seed, w, h) ==
    [y \in 0 .. h - 1 |-> [x \in 0 .. w - 1 |-> MoistureCell(pnoise2, seed, w, h, x, y)]]

\* The state of self.random after generate_heightmap and _generate_moisture: the
\* fallback noise re-seeds it on every sample (the last one is the moisture of the
\* last cell), the backend leaves it alone.
RngAfterMaps(pnoise2, seed, rng, w, h) ==
    Perlin(pnoise2, seed, rng, w - 1, w, h - 1, h, 2000, 4, 300).rng

----------------------------------------------------------------------------
(* _find_rivers *)

\* while attempts < 100
MaxAttempts == 100
\* if heightmap[y][x] > 0.7
SourceLevel == 700
\* heightmap[next_y][next_x] < 0.28
SeaLevel == 280
\* num_rivers: int = 12
NumRivers == 12

\* for dx, dy in [(-1,0),(1,0),(0,-1),(0,1)]
Dirs == << <<-1, 0>>, <<1, 0>>, <<0, -1>>, <<0, 1>> >>

\* a walk allowed one iteration per cell of the grid
StepLimitArea(w, h) == w * h

\* for _ in range(self.width + self.height)
StepLimit(w, h) == w + h

\* the start cell drawn at attempt a (0-based) from stream state rng: two draws
\* per attempt, x first
StartDraw(rng, w, h, a) ==
    <<RngRandint(RngSkip(rng, 2 * a), w), RngRandint(RngSkip(rng, 2 * a + 1), h)>>

\* the while loop choosing a start cell: up to MaxAttempts draws of (x, y), the
\* first with elevation above SourceLevel is taken; else the river is skipped
PickStart(hm, w, h, rng) ==
    LET Hit(a) == hm[StartDraw(rng, w, h, a)[2]][StartDraw(rng, w, h, a)[1]] > SourceLevel
    IN  IF (\A cy \in 0 .. h - 1, cx \in 0 .. w - 1 : hm[cy][cx] <= SourceLevel)
           \/ (\A a \in 0 .. MaxAttempts - 1 : ~Hit(a))
        THEN [found |-> FALSE, x |-> 0, y |-> 0, rng |-> RngSkip(rng, 2 * MaxAttempts)]
        ELSE LET a == CHOOSE b \in 0 .. MaxAttempts - 1 :
                          Hit(b) /\ \A c \in 0 .. b - 1 : ~Hit(c)
             IN  [found |-> TRUE,
                  x     |-> StartDraw(rng, w, h, a)[1],
                  y     |-> StartDraw(rng, w, h, a)[2],
                  rng   |-> RngSkip(rng, 2 * a + 2)]

\* a neighbour as high as the lowest so far replaces it
LowerOrEqual(a, b) == a <= b

\* if heightmap[ny][nx] < min_h: a neighbour replaces the running minimum
Lower(a, b) == a < b

\* the loop over Dirs from direction i on, with the running minimum (mh at mx, my)
RECURSIVE LowestFrom(_, _, _, _, _, _, _, _, _)
LowestFrom(hm, w, h, x, y, i, mh, mx, my) ==
    IF i > Len(Dirs) THEN <<mx, my>>
    ELSE LET nx == x + Dirs[i][1]
             ny == y + Dirs[i][2]
         IN  IF 0 <= nx /\ nx < w /\ 0 <= ny /\ ny < h /\ Lower(hm[ny][nx], mh)
             THEN LowestFrom(hm, w, h, x, y, i + 1, hm[ny][nx], nx, ny)
             ELSE LowestFrom(hm, w, h, x, y, i + 1, mh, mx, my)

\* (next_x, next_y) of the cell (x, y)
LowestNeighbor(hm, w, h, x, y) == LowestFrom(hm, w, h, x, y, 1, hm[y][x], x, y)

\* a walk that only ends where nothing is lower
WalkBreaksNoSea(hm, x, y, nxt) == nxt = <<x, y>>

\* if (next_x, next_y) == (x, y) or heightmap[next_y][next_x] < 0.28: break
WalkBreaks(hm, x, y, nxt) == nxt = <<x, y>> \/ hm[nxt[2]][nxt[1]] < SeaLevel

\* one iteration of the walk at (x, y): the cell joins the river set and the path,
\* then the walk breaks or moves to the lowest neighbour
WalkIter(hm, w, h, wk) ==
    LET nxt == LowestNeighbor(hm, w, h, wk.x, wk.y)
        brk == WalkBreaks(hm, wk.x, wk.y, nxt)
    IN  [wk EXCEPT !.x      = IF brk THEN wk.x ELSE nxt[1],
                   !.y      = IF brk THEN wk.y ELSE nxt[2],
                   !.rivers = wk.rivers \cup {<<wk.x, wk.y>>},
                   !.path   = Append(wk.path, <<wk.x, wk.y>>),
                   !.brk    = brk]

\* a walk about to start at (x, y)
WalkStart(x, y, rivers) == [x |-> x, y |-> y, rivers |-> rivers, path |-> <<>>, brk |-> FALSE]

\* the walk of one river, i iterations done: the river set afterwards
RECURSIVE Walk(_, _, _, _, _)
Walk(hm, w, h, wk, i) ==
    IF i >= StepLimit(w, h) \/ wk.brk THEN wk.rivers
    ELSE CHOOSE rv \in {Walk(hm, w, h, nw, i + 1) : nw \in {WalkIter(hm, w, h, wk)}} : TRUE

\* one pass of the loop over the rivers: a start cell is looked for and, when one
\* is found, walked from
TraceOne(hm, w, h, st) ==
    LET s == PickStart(hm, w, h, st.rng)
    IN  [rng    |-> s.rng,
         rivers |-> IF s.found THEN Walk(hm, w, h, WalkStart(s.x, s.y, st.rivers), 0)
                    ELSE st.rivers]

\* the loop over the rivers, k of them still to trace
RECURSIVE TraceRivers(_, _, _, _, _)
TraceRivers(hm, w, h, st, k) ==
    IF k = 0 THEN st
    ELSE CHOOSE res \in {TraceRivers(hm, w, h, nst, k - 1) : nst \in {TraceOne(hm, w, h, st)}} :
             TRUE

\* _find_rivers(heightmap, num_rivers) in stream state rng: the river set and the
\* stream's state afterwards
FindRivers(hm, w, h, rng, numRivers) ==
    CHOOSE res \in {TraceRivers(m, w, h, [rng |-> rng, rivers |-> {}], numRivers) : m \in {hm}} :
        TRUE

----------------------------------------------------------------------------
(* ascii_map: the glyph of a cell *)

\* the glyphs, "<ANSI colour>:<glyph>" ("~~" stands for the double wave of the
\* coast, "~~~" for the triple wave of a river, "A" for the high-mountain
\* triangle, "%" for the desert shade, "*" for the default-land dot)
Ocean     == "34:~"
Coast     == "36:~~"
River     == "96:~~~"
Mountain  == "37:A"
Foothill  == "37:^"
Tundra    == "37:^"
Desert    == "33:%"
Swamp     == "92:#"
Forest    == "32:n"
Grassland == "32:,"
Plains    == "32:."
Land      == "32:*"

\* lat = y / (height - 1) is the fraction ln / ld, ld > 0.
\* lat < p / 100 and lat > p / 100
LatBelow(ln, ld, p) == 100 * ln < p * ld
LatAbove(ln, ld, p) == 100 * ln > p * ld

\* lat_factor = 1 - abs(lat - 0.5) * 2 > t / 10 (the exact comparison, which the
\* floating-point one agrees with for every row of a grid of up to 20 rows)
LatFactorAbove(ln, ld, t) == 10 * Abs(2 * ln - ld) < (10 - t) * ld

\* 0.33 < h < 0.7
MidLand(h) == 330 < h /\ h < 700

\* the chain with the river test moved to the front
BiomeCharRiverFirst(h, m, ln, ld, isRiver) ==
    IF isRiver THEN River
    ELSE IF h < 280 THEN Ocean
    ELSE IF h < 320 THEN Coast
    ELSE IF h > 880 THEN Mountain
    ELSE IF h > 780 THEN Foothill
    ELSE IF LatBelow(ln, ld, 13) /\ h > 330 THEN Tundra
    ELSE IF LatAbove(ln, ld, 87) /\ h > 330 THEN Tundra
    ELSE IF m > 780 /\ h > 350 THEN Desert
    ELSE IF m < 320 /\ MidLand(h) /\ LatFactorAbove(ln, ld, 2) THEN Swamp
    ELSE IF m < 450 /\ MidLand(h) /\ LatFactorAbove(ln, ld, 1) THEN Forest
    ELSE IF m < 600 /\ MidLand(h) THEN Grassland
    ELSE IF m < 750 /\ MidLand(h) THEN Plains
    ELSE Land

\* the if / elif chain of ascii_map on h = heightmap[y][x], m = moisture[y][x],
\* lat = ln / ld and is_river
BiomeChar(h, m, ln, ld, isRiver) ==
    IF h < 280 THEN Ocean
    ELSE IF h < 320 THEN Coast
    ELSE IF isRiver THEN River
    ELSE IF h > 880 THEN Mountain
    ELSE IF h > 780 THEN Foothill
    ELSE IF LatBelow(ln, ld, 13) /\ h > 330 THEN Tundra
    ELSE IF LatAbove(ln, ld, 87) /\ h > 330 THEN Tundra
    ELSE IF m > 780 /\ h > 350 THEN Desert
    ELSE IF m < 320 /\ MidLand(h) /\ LatFactorAbove(ln, ld, 2) THEN Swamp
    ELSE IF m < 450 /\ MidLand(h) /\ LatFactorAbove(ln, ld, 1) THEN Forest
    ELSE IF m < 600 /\ MidLand(h) THEN Grassland
    ELSE IF m < 750 /\ MidLand(h) THEN Plains
    ELSE Land

\* the rows ascii_map joins: one glyph per cell (height > 1)
RenderLines(hm, mo, rivers, w, h) ==
    [y \in 0 .. h - 1 |->
        [x \in 0 .. w - 1 |-> BiomeChar(hm[y][x], mo[y][x], y, h - 1, <<x, y>> \in rivers)]]

----------------------------------------------------------------------------
(* save_image: the colour of a pixel *)

PixelColor(h) ==
    IF h < 300 THEN <<0, 0, 200 + TruncDiv(55 * h, 300)>>
    ELSE IF h < 500 THEN <<194, 178, 128>>
    ELSE IF h < 700 THEN <<34, 120 + TruncDiv(80 * (h - 500), 200), 34>>
    ELSE LET gray == Min(180 + TruncDiv(75 * (h - 700), 300), 255)
         IN  <<gray, gray, gray>>

----------------------------------------------------------------------------
(* State *)

VARIABLES
    pnoise2,   \* whether the noise backend was importable (module global pnoise2)
    Image,     \* whether Pillow was importable (module global Image)
    gen,       \* the WorldGenerator objects: gen[1], and gen[2] built from the
               \* same constructor arguments
    cli,       \* one run of main(): its arguments and what became of it
    trace,     \* one _find_rivers call in progress, step by step
    cell       \* one cell going through ascii_map's classification

vars == <<pnoise2, Image, gen, cli, trace, cell>>

\* an optional value: <<>> is None, <<v>> is v
None == <<>>
Some(v) == <<v>>

\* the values of the variables a specification does not use
NoCli   == [pc |-> "idle"]
NoTrace == [pc |-> "idle"]
NoCell  == [pc |-> "idle"]

----------------------------------------------------------------------------
(* WorldGenerator.__init__ *)

\* a check that lets zero through
NegativeDimensions(w, h) == w < 0 \/ h < 0

\* if width <= 0 or height <= 0: raise ValueError
InvalidDimensions(w, h) == w <= 0 \/ h <= 0

\* Python's "a or b" on an optional integer a: None and 0 are both falsy
OrElse(a, b) == IF a /= None /\ a[1] /= 0 THEN a[1] ELSE b

\* seed or random.randint(0, 100000), r being the number randint returns
SeedOr(seedArg, r) == OrElse(seedArg, r)

\* no object: before construction, or when __init__ raised
NoGen(status, w, h, seedArg) ==
    [status |-> status, args |-> <<w, h, seedArg>>,
     width |-> 0, height |-> 0, seed |-> 0, random |-> 0,
     results |-> <<>>, image |-> [status |-> "none", pixels |-> <<>>]]

\* WorldGenerator(w, h, seedArg)
NewGenerator(w, h, seedArg, r) ==
    IF InvalidDimensions(w, h) THEN NoGen("ValueError", w, h, seedArg)
    ELSE [NoGen("ok", w, h, seedArg) EXCEPT
             !.width = w, !.height = h,
             !.seed = SeedOr(seedArg, r),
             !.random = RngSeed(SeedOr(seedArg, r))]

----------------------------------------------------------------------------
(* WorldGenerator.ascii_map, WorldGenerator.save_image *)

\* lat = y / (self.height - 1) raises ZeroDivisionError in the first row when
\* height is 1, after the maps and the rivers were computed
AsciiMapReturn(hm, mo, rivers, w, h) ==
    IF h - 1 = 0
    THEN [status |-> "ZeroDivisionError", heightmap |-> hm, moisture |-> mo,
          rivers |-> rivers, lines |-> <<>>]
    ELSE [status |-> "ok", heightmap |-> hm, moisture |-> mo,
          rivers |-> rivers, lines |-> RenderLines(hm, mo, rivers, w, h)]

\* g.ascii_map(): the generator afterwards, the call's outcome appended to results
AsciiMapCall(pn, g) ==
    LET hm == GenerateHeightmap(pn, g.seed, g.width, g.height)
        mo == GenerateMoisture(pn, g.seed, g.width, g.height)
        fr == FindRivers(hm, g.width, g.height,
                         RngAfterMaps(pn, g.seed, g.random, g.width, g.height),
                         NumRivers)
    IN  [g EXCEPT !.random = fr.rng,
                  !.results = Append(@, AsciiMapReturn(hm, mo, fr.rivers,
                                                       g.width, g.height))]

\* the state of self.random after generate_heightmap alone (the last sample is
\* the detail of the last cell)
RngAfterHeightmap(pn, g) ==
    Perlin(pn, g.seed, g.random, g.width - 2, 2 * g.width,
           g.height - 2, 2 * g.height, 3000, 6, 200).rng

\* g.save_image(path): RuntimeError without Pillow, else one colour per cell
SaveImageCall(pn, g, pillow) ==
    IF ~pillow THEN [g EXCEPT !.image = [status |-> "RuntimeError", pixels |-> <<>>]]
    ELSE LET hm == GenerateHeightmap(pn, g.seed, g.width, g.height)
         IN  [g EXCEPT !.random = RngAfterHeightmap(pn, g),
                       !.image = [status |-> "ok",
                                  pixels |-> [y \in 0 .. g.height - 1 |->
                                                [x \in 0 .. g.width - 1 |->
                                                    PixelColor(hm[y][x])]]]]

----------------------------------------------------------------------------
(* The generator and its twin *)

Dims     == -1 .. MaxDim
Seeds    == 0 .. MaxSeed
SeedArgs == {None} \cup {Some(sd) : sd \in Seeds}

Init ==
    /\ pnoise2 \in BOOLEAN
    /\ Image \in BOOLEAN
    /\ gen = [i \in {1, 2} |-> NoGen("none", 0, 0, None)]
    /\ cli = NoCli
    /\ trace = NoTrace
    /\ cell = NoCell

\* gen[1] = WorldGenerator(w, h, seedArg)
Construct ==
    /\ gen[1].status = "none"
    /\ \E w \in Dims, h \in Dims, seedArg \in SeedArgs, r \in Seeds :
           gen' = [gen EXCEPT ![1] = NewGenerator(w, h, seedArg, r)]
    /\ UNCHANGED <<pnoise2, Image, cli, trace, cell>>

\* gen[2] = WorldGenerator(...) with the arguments gen[1] was given
ConstructTwin ==
    /\ gen[1].status /= "none"
    /\ gen[2].status = "none"
    /\ \E r \in Seeds :
           gen' = [gen EXCEPT ![2] = NewGenerator(gen[1].args[1], gen[1].args[2],
                                                  gen[1].args[3], r)]
    /\ UNCHANGED <<pnoise2, Image, cli, trace, cell>>

\* gen[i].ascii_map(); the twin is asked once
AsciiMap(i) ==
    /\ gen[i].status = "ok"
    /\ Len(gen[i].results) < (IF i = 1 THEN MaxCalls ELSE 1)
    /\ gen' = [gen EXCEPT ![i] = AsciiMapCall(pnoise2, gen[i])]
    /\ UNCHANGED <<pnoise2, Image, cli, trace, cell>>

SaveImage(i) ==
    /\ gen[i].status = "ok"
    /\ gen' = [gen EXCEPT ![i] = SaveImageCall(pnoise2, gen[i], Image)]
    /\ UNCHANGED <<pnoise2, Image, cli, trace, cell>>

Next ==
    \/ Construct
    \/ ConstructTwin
    \/ \E i \in {1, 2} : AsciiMap(i)
    \/ SaveImage(1)

Spec == Init /\ [][Next]_vars

----------------------------------------------------------------------------
(* Properties of the generator and its twin *)

\* C1: two generators constructed with the same integer seed, width and height
\* hold the same seed, and their first ascii_map calls produce the same
\* heightmap, moisture map, river set and biome grid.
C1_SameArgumentsSameWorld ==
    (/\ gen[1].status = "ok"
     /\ gen[2].status = "ok"
     /\ gen[1].args[3] /= None)
        => /\ gen[1].seed = gen[2].seed
           /\ (/\ gen[1].image.status = "none"
               /\ Len(gen[1].results) >= 1
               /\ Len(gen[2].results) >= 1)
                  => gen[1].results[1] = gen[2].results[1]

\* C2: two ascii_map calls in a row on one generator return the same thing:
\* both raise the same error or both return the same lines.
C2_RepeatedCallsAgree ==
    (/\ gen[1].status = "ok"
     /\ gen[1].image.status = "none"
     /\ Len(gen[1].results) = 2)
        => /\ gen[1].results[1].status = gen[1].results[2].status
           /\ gen[1].results[1].lines = gen[1].results[2].lines

\* C5: a constructor call with width <= 0 or height <= 0 raises ValueError and
\* leaves no generator to call; one with width > 0 and height > 0 succeeds and
\* the generator holds exactly the width and height it was given.
C5_ConstructionValidation ==
    \A i \in {1, 2} :
        gen[i].status /= "none" =>
            LET w == gen[i].args[1]
                h == gen[i].args[2]
            IN  /\ (w <= 0 \/ h <= 0) =>
                       /\ gen[i].status = "ValueError"
                       /\ gen[i].results = <<>>
                       /\ gen[i].image.status = "none"
                /\ (w > 0 /\ h > 0) =>
                       /\ gen[i].status = "ok"
                       /\ gen[i].width = w
                       /\ gen[i].height = h

\* a constructor call with width 0 and a positive height was refused, and
\* another with both positive was accepted
C5_Witness ==
    /\ gen[1].status = "ValueError"
    /\ gen[1].args[1] = 0
    /\ gen[1].args[2] > 0
    /\ gen[2].status = "ValueError"

\* C6: on a generator of height 1 every ascii_map call completes and returns
\* one line of width glyphs.
C6_OneRowGridRenders ==
    \A i \in {1, 2} :
        (gen[i].status = "ok" /\ gen[i].height = 1) =>
            \A k \in 1 .. Len(gen[i].results) :
                /\ gen[i].results[k].status = "ok"
                /\ DOMAIN gen[i].results[k].lines = {0}
                /\ DOMAIN gen[i].results[k].lines[0] = 0 .. gen[i].width - 1

\* C7: every moisture value lies in [0, 1], and so does every elevation
\* ascii_map classifies.
C7_RangeDiscipline ==
    \A i \in {1, 2} :
        \A k \in 1 .. Len(gen[i].results) :
            \A y \in 0 .. gen[i].height - 1 :
                \A x \in 0 .. gen[i].width - 1 :
                    /\ gen[i].results[k].moisture[y][x] \in 0 .. 1000
                    /\ gen[i].results[k].heightmap[y][x] \in 0 .. 1000

----------------------------------------------------------------------------
(* main: one run of the command line *)

\* what the terminal reports, <<columns, lines>>
TermSizes == {<<2, 2>>, <<MaxDim, MaxDim>>}

DimArgs == {None} \cup {Some(d) : d \in Dims}

\* the width and height main passes to WorldGenerator
ResolveDims(argWidth, argHeight, size) ==
    IF argWidth = None \/ argHeight = None
    THEN <<OrElse(argWidth, size[1]), OrElse(argHeight, size[2] - 1)>>
    ELSE <<argWidth[1], argHeight[1]>>

\* main(argv) from the parsed arguments on: the generator it built and used, and
\* how the run ended.  closed: the reader of stdout went away (BrokenPipeError,
\* swallowed).
MainRun(pn, pillow, argWidth, argHeight, argSeed, mode, size, r, closed) ==
    LET dims == ResolveDims(argWidth, argHeight, size)
        g0   == NewGenerator(dims[1], dims[2], argSeed, r)
        g1   == IF g0.status /= "ok" THEN g0
                ELSE IF mode = "ascii" THEN AsciiMapCall(pn, g0)
                ELSE SaveImageCall(pn, g0, pillow)
    IN  [pc |-> "exit", width |-> argWidth, height |-> argHeight, seed |-> argSeed,
         mode |-> mode, size |-> size, generator |-> g1,
         exit |-> IF g0.status /= "ok" THEN g0.status
                  ELSE IF mode = "ascii" THEN g1.results[1].status
                  ELSE g1.image.status,
         stdout |-> IF g0.status /= "ok" THEN "nothing"
                    ELSE IF mode = "ascii"
                    THEN (IF g1.results[1].status /= "ok" \/ closed THEN "nothing"
                          ELSE "map")
                    ELSE (IF g1.image.status = "ok" THEN "saved" ELSE "nothing")]

InitCli ==
    /\ pnoise2 \in BOOLEAN
    /\ Image \in BOOLEAN
    /\ gen = [i \in {1, 2} |-> NoGen("none", 0, 0, None)]
    /\ cli = [pc |-> "start"]
    /\ trace = NoTrace
    /\ cell = NoCell

Main ==
    /\ cli.pc = "start"
    /\ \E argWidth \in DimArgs, argHeight \in DimArgs, argSeed \in SeedArgs,
          mode \in {"ascii", "graphics"}, size \in TermSizes, r \in Seeds,
          closed \in BOOLEAN :
           cli' = MainRun(pnoise2, Image, argWidth, argHeight, argSeed, mode, size,
                          r, closed)
    /\ UNCHANGED <<pnoise2, Image, gen, trace, cell>>

NextCli == Main

SpecCli == InitCli /\ [][NextCli]_vars

\* C8: main passes an explicitly given width or height on to WorldGenerator,
\* uses the terminal's size only for one that was omitted, and so ends with
\* ValueError whenever --width 0 or --height 0 was given.
C8_ExplicitDimensionsReachConstructor ==
    cli.pc = "exit" =>
        /\ cli.width /= None => cli.generator.args[1] = cli.width[1]
        /\ cli.height /= None => cli.generator.args[2] = cli.height[1]
        /\ cli.width = None => cli.generator.args[1] = cli.size[1]
        /\ cli.height = None => cli.generator.args[2] = cli.size[2] - 1
        /\ (cli.width = Some(0) \/ cli.height = Some(0)) => cli.exit = "ValueError"

----------------------------------------------------------------------------
(* _find_rivers, step by step, on a given heightmap *)

\* the position of a border cell going clockwise from (0, 0)
RingRank(w, h, x, y) ==
    IF y = 0 THEN x
    ELSE IF x = w - 1 THEN (w - 1) + y
    ELSE IF y = h - 1 THEN (w - 1) + (h - 1) + (w - 1 - x)
    ELSE 2 * (w - 1) + (h - 1) + (h - 1 - y)

\* a channel that runs down along the border, clockwise from its only source at
\* (0, 0) to just above sea level; the cell closing the ring and the inner
\* cells stand just below the source level
RingTerrain(w, h) ==
    LET len  == 2 * (w + h) - 4
        drop == 430 \div Max(1, len - 2)
    IN  [y \in 0 .. h - 1 |-> [x \in 0 .. w - 1 |->
            IF (x = 0 \/ x = w - 1 \/ y = 0 \/ y = h - 1)
               /\ RingRank(w, h, x, y) < len - 1
            THEN 710 - drop * RingRank(w, h, x, y)
            ELSE 700]]

\* terrain number k: every cell at one of 17 levels from 0.2 to 1.0
ScrambledTerrain(k, w, h) ==
    [y \in 0 .. h - 1 |-> [x \in 0 .. w - 1 |->
        200 + 50 * (Scramble((k * 61 + y * 7 + x * 3 + 1) % 4096) % 17)]]

\* the heightmaps traced: scrambled ones, the ring channel, and the ones
\* generate_heightmap makes with and without the backend
Terrains(w, h) ==
    {ScrambledTerrain(k, w, h) : k \in 0 .. MaxTerrain}
        \cup {RingTerrain(w, h)}
        \cup {GenerateHeightmap(pn, sd, w, h) : pn \in BOOLEAN, sd \in Seeds}

\* the locals of _find_rivers when the loop over the rivers is entered
TraceStart(hm, w, h, numRivers, rng) ==
    [pc |-> "pick", heightmap |-> hm, width |-> w, height |-> h,
     numRivers |-> numRivers, k |-> 0, rng |-> rng, rivers |-> {},
     x |-> 0, y |-> 0, i |-> 0, path |-> <<>>, brk |-> FALSE]

InitRivers ==
    /\ pnoise2 = TRUE
    /\ Image = TRUE
    /\ gen = [i \in {1, 2} |-> NoGen("none", 0, 0, None)]
    /\ cli = NoCli
    /\ cell = NoCell
    /\ \E w \in 1 .. MaxDim, h \in 1 .. MaxDim, numRivers \in 0 .. MaxRivers,
          sd \in Seeds :
           \E hm \in Terrains(w, h) :
               trace = TraceStart(hm, w, h, numRivers, RngSeed(sd))

\* the next river: the while loop looking for a start cell; without one the
\* river is skipped
RiverPickStart ==
    /\ trace.pc = "pick"
    /\ trace.k < trace.numRivers
    /\ LET s == PickStart(trace.heightmap, trace.width, trace.height, trace.rng)
       IN  trace' = IF s.found
                    THEN [trace EXCEPT !.pc = "walk", !.k = @ + 1, !.rng = s.rng,
                                       !.x = s.x, !.y = s.y, !.i = 0,
                                       !.path = <<>>, !.brk = FALSE]
                    ELSE [trace EXCEPT !.k = @ + 1, !.rng = s.rng]
    /\ UNCHANGED <<pnoise2, Image, gen, cli, cell>>

\* one iteration of the walk; the walk is over when it breaks or has made
\* StepLimit iterations
RiverStep ==
    /\ trace.pc = "walk"
    /\ LET nw == WalkIter(trace.heightmap, trace.width, trace.height, trace)
       IN  trace' = [nw EXCEPT !.i = @ + 1,
                               !.pc = IF nw.brk \/ trace.i + 1 >= StepLimit(trace.width,
                                                                        trace.height)
                                      THEN "pick" ELSE "walk"]
    /\ UNCHANGED <<pnoise2, Image, gen, cli, cell>>

\* return rivers
RiverReturn ==
    /\ trace.pc = "pick"
    /\ trace.k = trace.numRivers
    /\ trace' = [trace EXCEPT !.pc = "done"]
    /\ UNCHANGED <<pnoise2, Image, gen, cli, cell>>

NextRivers == RiverPickStart \/ RiverStep \/ RiverReturn

SpecRivers == InitRivers /\ [][NextRivers]_vars

\* C4: at every point of the tracing, and when _find_rivers returns, the river
\* set has at most numRivers * (width + height) cells.
C4_RiverBound ==
    trace.pc /= "idle" =>
        Cardinality(trace.rivers) <= trace.numRivers * (trace.width + trace.height)

\* _find_rivers returned a set that attains the bound, its last walk cut short
\* by the step limit and not by a break
C4_Witness ==
    /\ trace.pc = "done"
    /\ trace.numRivers >= 1
    /\ ~trace.brk
    /\ trace.i = trace.width + trace.height
    /\ Cardinality(trace.rivers) = trace.numRivers * (trace.width + trace.height)

\* C9: each iteration of a walk adds the current cell to the river set; the
\* walk moves on to the in-bounds 4-neighbour of least elevation, the first in
\* the order left, right, up, down among equals, and only if that is strictly
\* lower than the current cell; it stops when nothing is strictly lower, when
\* the chosen cell is below 0.28, or after width + height iterations.
\* Elevations along a walk strictly decrease and no cell is visited twice.
C9_WalkStepRule ==
    trace.pc /= "idle" =>
        LET w == trace.width
            h == trace.height
            p == trace.path
            n == Len(trace.path)
            Elev(c) == trace.heightmap[c[2]][c[1]]
            Around(c) == {d \in {<<c[1] - 1, c[2]>>, <<c[1] + 1, c[2]>>,
                                 <<c[1], c[2] - 1>>, <<c[1], c[2] + 1>>} :
                              d[1] \in 0 .. w - 1 /\ d[2] \in 0 .. h - 1}
            Rank(c, d) == IF d[1] = c[1] - 1 THEN 1
                          ELSE IF d[1] = c[1] + 1 THEN 2
                          ELSE IF d[2] = c[2] - 1 THEN 3 ELSE 4
            Chosen(c, d) == /\ d \in Around(c)
                            /\ Elev(d) < Elev(c)
                            /\ \A o \in Around(c) :
                                   /\ Elev(d) <= Elev(o)
                                   /\ Elev(o) = Elev(d) => Rank(c, d) <= Rank(c, o)
        IN  /\ n = trace.i
            /\ n <= w + h
            /\ \A j \in 1 .. n : p[j] \in trace.rivers
            /\ \A j \in 1 .. n - 1 : Chosen(p[j], p[j + 1]) /\ Elev(p[j + 1]) >= 280
            /\ \A j \in 1 .. n : \A k \in j + 1 .. n :
                   Elev(p[k]) < Elev(p[j]) /\ p[k] /= p[j]
            /\ (trace.pc = "walk" /\ n > 0) =>
                   /\ Chosen(p[n], <<trace.x, trace.y>>)
                   /\ Elev(<<trace.x, trace.y>>) >= 280
                   /\ n < w + h
            /\ (trace.pc /= "walk" /\ n > 0) =>
                   \/ \A d \in Around(p[n]) : Elev(d) >= Elev(p[n])
                   \/ \E d \in Around(p[n]) : Chosen(p[n], d) /\ Elev(d) < 280
                   \/ n = w + h

\* a finished walk of at least three cells, one of whose moves had to choose
\* between two equally low neighbours
C9_Witness ==
    /\ trace.pc = "done"
    /\ Len(trace.path) >= 3
    /\ \E j \in 1 .. Len(trace.path) - 1 :
           LET c == trace.path[j]
               d == trace.path[j + 1]
           IN  \E o \in {<<c[1] - 1, c[2]>>, <<c[1] + 1, c[2]>>,
                         <<c[1], c[2] - 1>>, <<c[1], c[2] + 1>>} \ {d} :
                   /\ o[1] \in 0 .. trace.width - 1
                   /\ o[2] \in 0 .. trace.height - 1
                   /\ trace.heightmap[o[2]][o[1]] = trace.heightmap[d[2]][d[1]]

\* C10: every cell of the river set is inside the grid and has elevation
\* >= 0.28, every walk starts above 0.7, and ascii_map renders a river cell as
\* coast when its elevation is below 0.32 and as river otherwise, never as ocean.
C10_RiverCellsAboveSea ==
    trace.pc /= "idle" =>
        /\ \A c \in trace.rivers :
               /\ c[1] \in 0 .. trace.width - 1
               /\ c[2] \in 0 .. trace.height - 1
               /\ trace.heightmap[c[2]][c[1]] >= 280
               /\ trace.height > 1 =>
                      \A m \in {0, 500, 1000} :
                          LET g == BiomeChar(trace.heightmap[c[2]][c[1]], m, c[2],
                                             trace.height - 1, TRUE)
                          IN  /\ g /= Ocean
                              /\ g = IF trace.heightmap[c[2]][c[1]] < 320
                                     THEN Coast ELSE River
        /\ Len(trace.path) > 0 =>
               trace.heightmap[trace.path[1][2]][trace.path[1][1]] > 700

\* _find_rivers returned a set with a cell in the coastal band of a grid that
\* ascii_map can render
C10_Witness ==
    /\ trace.pc = "done"
    /\ trace.height > 1
    /\ \E c \in trace.rivers :
           /\ trace.heightmap[c[2]][c[1]] >= 280
           /\ trace.heightmap[c[2]][c[1]] < 320

----------------------------------------------------------------------------
(* ascii_map's classification of one cell *)

\* elevations and moistures on both sides of every threshold of the chain
HeightSamples ==
    {0, 279, 280, 319, 320, 330, 331, 350, 351, 699, 700, 780, 781, 880, 881, 1000}
MoistureSamples ==
    {0, 319, 320, 449, 450, 599, 600, 749, 750, 780, 781, 1000}

InitBiome ==
    /\ pnoise2 = TRUE
    /\ Image = TRUE
    /\ gen = [i \in {1, 2} |-> NoGen("none", 0, 0, None)]
    /\ cli = NoCli
    /\ trace = NoTrace
    /\ \E h \in HeightSamples, m \in MoistureSamples, rows \in 2 .. MaxRows,
          isRiver \in BOOLEAN :
           \E y \in 0 .. rows - 1 :
               cell = [pc |-> "cell", h |-> h, m |-> m, y |-> y, height |-> rows,
                       isRiver |-> isRiver, char |-> ""]

\* the body of ascii_map's inner loop for the cell in row y
Classify ==
    /\ cell.pc = "cell"
    /\ cell' = [cell EXCEPT !.pc = "appended",
                            !.char = BiomeChar(cell.h, cell.m, cell.y, cell.height - 1,
                                               cell.isRiver)]
    /\ UNCHANGED <<pnoise2, Image, gen, cli, trace>>

NextBiome == Classify

SpecBiome == InitBiome /\ [][NextBiome]_vars

\* C3: the glyph appended for a cell is the glyph of the first rule that matches
\* in the order ocean, coast, river, high mountain, foothill, tundra north,
\* tundra south, desert, swamp, forest, grassland, plains, default land; some
\* rule always matches and one glyph is appended.
C3_FirstMatchingRule ==
    cell.pc = "appended" =>
        LET h == cell.h
            m == cell.m
            ln == cell.y
            ld == cell.height - 1
            mid == h > 330 /\ h < 700
            \* latitude factor 1 - |2 lat - 1|, in tenths of ld
            lf10 == 10 * ld - 10 * Abs(2 * ln - ld)
            Matches == <<h < 280,
                         h < 320,
                         cell.isRiver,
                         h > 880,
                         h > 780,
                         100 * ln < 13 * ld /\ h > 330,
                         100 * ln > 87 * ld /\ h > 330,
                         m > 780 /\ h > 350,
                         m < 320 /\ mid /\ lf10 > 2 * ld,
                         m < 450 /\ mid /\ lf10 > ld,
                         m < 600 /\ mid,
                         m < 750 /\ mid,
                         TRUE>>
            Glyph == <<Ocean, Coast, River, Mountain, Foothill, Tundra, Tundra, Desert,
                       Swamp, Forest, Grassland, Plains, Land>>
        IN  /\ \E k \in 1 .. 13 : Matches[k]
            /\ \A k \in 1 .. 13 :
                   (Matches[k] /\ \A j \in 1 .. k - 1 : ~Matches[j])
                       => cell.char = Glyph[k]
            /\ Cardinality({k \in 1 .. 13 :
                               Matches[k] /\ \A j \in 1 .. k - 1 : ~Matches[j]}) = 1

\* a river cell in the coastal band was classified: the coast rule comes before
\* the river rule
C3_Witness ==
    /\ cell.pc = "appended"
    /\ cell.isRiver /\ cell.h >= 280 /\ cell.h < 320 /\ cell.char = Coast

====
